---- MODULE Spec2Model ----
(***************************************************************************)
(* Model of src/server.py: the two tools of the Inventory Optimization     *)
(* Server, optimize_safety_stock and simulate_lead_time, run as asyncio    *)
(* coroutines on one event loop.                                           *)
(*                                                                         *)
(* Numbers: a Python float is modelled as a record [nan, v] where v is a   *)
(* fixed-point integer in thousandths (1.414 is 1414) and nan marks NaN.   *)
(* round(x, 2) rounds half-to-even to a multiple of 10 thousandths.        *)
(***************************************************************************)
EXTENDS Integers, Sequences, FiniteSets, TLC

(* ------------------------------ bounds -------------------------------- *)

\* Period of the modelled pseudo-random stream (the real generator's period
\* is astronomically larger).
StreamPeriod == 2

\* Last value of the wall clock, in days after the server started.
MaxClock == 1

\* The concurrent tool invocations, numbered in their order of arrival.
Calls == 1 .. 2

(* ------------------------- program constants -------------------------- *)

simulation_days == 30

InitialInventory == 100

ReorderThreshold == 20

ReplenishmentQuantity == 100

\* 1.96, in hundredths
z_score == 196

HTTP_OK == 200

\* fixed-point scale: thousandths
Milli == 10 * 100

(* ------------------------------ floats -------------------------------- *)

NaN == [nan |-> TRUE, v |-> 0]

F(n) == [nan |-> FALSE, v |-> n]

FAdd(a, b) == IF a.nan \/ b.nan THEN NaN ELSE F(a.v + b.v)

FSub(a, b) == IF a.nan \/ b.nan THEN NaN ELSE F(a.v - b.v)

\* a < b; every comparison with NaN is False
FLt(a, b) == ~a.nan /\ ~b.nan /\ a.v < b.v

\* a times z tenths
FScale(a, z10) == IF a.nan THEN NaN ELSE F((a.v * z10) \div 10)

\* round(x, 2): half to even, on thousandths; round(nan, 2) is nan
Round2(n) ==
    LET q == n \div 10
        r == n % 10
    IN  IF r < 5 THEN 10 * q
        ELSE IF r > 5 THEN 10 * (q + 1)
        ELSE IF q % 2 = 0 THEN 10 * q ELSE 10 * (q + 1)

round(a) == IF a.nan THEN NaN ELSE F(Round2(a.v))

(* ----------------------------- statistics ----------------------------- *)

RECURSIVE Sum(_)
Sum(xs) == IF xs = <<>> THEN 0 ELSE Head(xs) + Sum(Tail(xs))

RECURSIVE SumSq(_)
SumSq(xs) == IF xs = <<>> THEN 0 ELSE Head(xs) * Head(xs) + SumSq(Tail(xs))

RECURSIVE SqrtIter(_, _, _)
SqrtIter(n, lo, hi) ==
    IF lo >= hi THEN lo
    ELSE LET mid == (lo + hi + 1) \div 2
         IN  IF mid * mid <= n THEN SqrtIter(n, mid, hi)
             ELSE SqrtIter(n, lo, mid - 1)

\* floor of the square root
Isqrt(n) == SqrtIter(n, 0, 46340)

\* np.mean of a list of integers, in thousandths; nan (and a warning) on []
np_mean(xs) ==
    IF xs = <<>> THEN NaN ELSE F((Sum(xs) * Milli) \div Len(xs))

\* np.std: the population standard deviation (ddof = 0), in thousandths
np_std(xs) ==
    IF xs = <<>> THEN NaN
    ELSE LET n == Len(xs)
             d == n * SumSq(xs) - Sum(xs) * Sum(xs)
         IN  F(Isqrt((((d * Milli) \div n) * Milli) \div n))

(* ----------------------------- exceptions ----------------------------- *)

Exc(type, msg) == [type |-> type, msg |-> msg]

\* the classes an exception of class `type` is an instance of
Bases(type) ==
    CASE type = "KeyError"    -> {"KeyError", "LookupError", "Exception"}
      [] type = "TypeError"   -> {"TypeError", "Exception"}
      [] type = "ClientError" -> {"ClientError", "Exception"}
      [] OTHER                -> {"Exception"}

IsInstance(exc, cls) == cls \in Bases(exc.type)

Raise(exc) == [kind |-> "raise", exc |-> exc]

Return(value) == [kind |-> "return", value |-> value]

Pending == [kind |-> "none"]

\* raise Exception(f"<prefix>{str(e)}")
Wrap(prefix, e) == Raise(Exc("Exception", <<prefix>> \o e.msg))

(* ------------------------ optimize_safety_stock ----------------------- *)

JNum(n) == [t |-> "num", n |-> n]

JNull == [t |-> "null", n |-> 0]

HasKey(record, key) == key \in DOMAIN record

\* response.status != 200 is the failure test
StatusOk(status) == status = HTTP_OK

\* variant: record.get('demand', 0), a default instead of the KeyError
LookupDemandDefault(record) ==
    IF HasKey(record, "demand") THEN Return(record.demand)
    ELSE Return(JNum(0))

\* record['demand']: KeyError when the key is absent
LookupDemand(record) ==
    IF HasKey(record, "demand") THEN Return(record.demand)
    ELSE Raise(Exc("KeyError", <<"'demand'">>))

\* variant: the mean subtracted from the buffer
SafetyStockMinusMean(avg_demand, std_demand) ==
    IF std_demand.nan \/ avg_demand.nan THEN NaN
    ELSE F((z_score * std_demand.v) \div 100 - avg_demand.v)

SafetyStock(avg_demand, std_demand) ==
    IF std_demand.nan THEN NaN ELSE F((z_score * std_demand.v) \div 100)

\* variant: the z-score looked up from the desired service level
ComputeResultByLevel(item_id, desired_service_level, historical_data, demands) ==
    LET avg_demand   == np_mean(demands)
        std_demand   == np_std(demands)
        z            == IF desired_service_level >= 99 THEN 233 ELSE z_score
        safety_stock == F((z * std_demand.v) \div 100)
    IN  [item_id        |-> item_id,
         safety_stock   |-> round(safety_stock),
         average_demand |-> round(avg_demand),
         std_demand     |-> round(std_demand),
         service_level  |-> desired_service_level,
         data_points    |-> Len(historical_data)]

\* the result record, from the extracted numeric demands
ComputeResult(item_id, desired_service_level, historical_data, demands) ==
    LET avg_demand   == np_mean(demands)
        std_demand   == np_std(demands)
        safety_stock == SafetyStock(avg_demand, std_demand)
    IN  [item_id        |-> item_id,
         safety_stock   |-> round(safety_stock),
         average_demand |-> round(avg_demand),
         std_demand     |-> round(std_demand),
         service_level  |-> desired_service_level,
         data_points    |-> Len(historical_data)]

\* the body of the inner try
ProcessBody(item_id, desired_service_level, historical_data) ==
    LET looked == [k \in DOMAIN historical_data |->
                      LookupDemand(historical_data[k])]
    IN  IF \E k \in DOMAIN looked : looked[k].kind = "raise"
        THEN looked[CHOOSE k \in DOMAIN looked :
                       /\ looked[k].kind = "raise"
                       /\ \A j \in DOMAIN looked :
                              looked[j].kind = "raise" => k <= j]
        ELSE LET demands == [k \in DOMAIN looked |-> looked[k].value]
             IN  IF demands = <<>>
                 THEN Raise(Exc("Exception",
                         <<"No demand data found in historical records">>))
                 ELSE IF \E k \in DOMAIN demands : demands[k].t # "num"
                 THEN Raise(Exc("TypeError",
                         <<"unsupported operand type(s)">>))
                 ELSE Return(ComputeResult(item_id, desired_service_level,
                         historical_data,
                         [k \in DOMAIN demands |-> demands[k].n]))

\* except KeyError / except Exception of the inner try
InnerHandlers(outcome) ==
    IF outcome.kind # "raise" THEN outcome
    ELSE IF IsInstance(outcome.exc, "KeyError")
    THEN Wrap("Invalid data format in historical records: ", outcome.exc)
    ELSE IF IsInstance(outcome.exc, "Exception")
    THEN Wrap("Error processing historical data: ", outcome.exc)
    ELSE outcome

\* except aiohttp.ClientError / except Exception of the outer try
OuterHandlers(outcome) ==
    IF outcome.kind # "raise" THEN outcome
    ELSE IF IsInstance(outcome.exc, "ClientError")
    THEN Wrap("Error connecting to historical data API: ", outcome.exc)
    ELSE IF IsInstance(outcome.exc, "Exception")
    THEN Wrap("Unexpected error: ", outcome.exc)
    ELSE outcome

\* what the code after `await response.json()` does with the parsed body
AfterJson(item_id, desired_service_level, historical_data) ==
    IF historical_data = <<>>
    THEN Raise(Exc("Exception", <<"No historical data received from API">>))
    ELSE InnerHandlers(
             ProcessBody(item_id, desired_service_level, historical_data))

\* what the code after `session.get(...)` does with the response
AfterGet(response) ==
    IF response.error
    THEN Raise(Exc("ClientError", <<"Cannot connect to host">>))
    ELSE IF ~StatusOk(response.status)
    THEN Raise(Exc("Exception", <<"Failed to fetch historical data: HTTP ">>))
    ELSE Pending

(* -------------------------- simulate_lead_time ------------------------ *)

\* record['quantity']: KeyError when the key is absent
LookupQuantity(record) ==
    IF HasKey(record, "quantity") THEN Return(record.quantity)
    ELSE Raise(Exc("KeyError", <<"'quantity'">>))

\* np.random.normal(loc, scale) on generator state g: loc + scale * z, with
\* z (in tenths) the next standard-normal output of the generator; a nan
\* loc or scale passes numpy's scale >= 0 test and gives nan
normal(g, loc, scale) ==
    FAdd(loc, FScale(scale, g.stream[(g.pos % StreamPeriod) + 1]))

\* the generator after one draw
Advance(g) == [g EXCEPT !.pos = @ + 1]

\* variant: if current_inventory <= 20
ReplenishAtThreshold(current_inventory) ==
    IF ~current_inventory.nan
       /\ current_inventory.v <= ReorderThreshold * Milli
    THEN FAdd(current_inventory, F(ReplenishmentQuantity * Milli))
    ELSE current_inventory

\* if current_inventory < 20: current_inventory += 100
Replenish(current_inventory) ==
    IF FLt(current_inventory, F(ReorderThreshold * Milli))
    THEN FAdd(current_inventory, F(ReplenishmentQuantity * Milli))
    ELSE current_inventory

\* variant: the replenishment test before the day's demand is subtracted, so
\* that a replenishment shows the day after
DayUpdateNextDay(c, daily_demand) ==
    FSub(Replenish(c.current_inventory), daily_demand)

\* variant: the demand over the average lead time is subtracted
DayUpdateLeadTime(c, daily_demand) ==
    Replenish(FSub(FSub(c.current_inventory, daily_demand), c.avg_lead_time))

\* current_inventory at the end of one iteration of the day loop of frame c,
\* daily_demand being the demand drawn
DayUpdate(c, daily_demand) ==
    Replenish(FSub(c.current_inventory, daily_demand))

\* the entry appended for `day`
Entry(start_date, day, current_inventory) ==
    [date |-> start_date + day, inventory_level |-> round(current_inventory)]

\* variant: one iteration too many
LoopRunsOver(day) == day <= simulation_days

\* for day in range(simulation_days)
LoopContinues(day) == day < simulation_days

\* variant: an await in the loop body hands the event loop back
AfterIterationYields(i) == 0

\* who holds the event loop after an iteration of the day loop of call i: the
\* loop body has no await, so the coroutine keeps running
AfterIteration(i) == i

SimResult(c) ==
    [item_id            |-> c.item_id,
     average_lead_time  |-> round(c.avg_lead_time),
     std_lead_time      |-> round(c.std_lead_time),
     simulation_results |-> c.inventory_levels]

(* ------------------------------- inputs ------------------------------- *)

ItemIds == {"item-1", "item-2"}

\* simulate_lead_time only echoes its item_id
SimItemIds == {"item-1"}

\* desired_service_level, in percent
ServiceLevels == {95, 99}

LeadTimeSets == {<<>>, <<5, 7, 6>>, <<4>>}

Q(n) == [date |-> "d", quantity |-> n]

DemandDataSets ==
    { <<>>,
      <<Q(8), Q(12), Q(10), Q(10)>>,
      <<Q(0), Q(60)>>,
      <<Q(10), [date |-> "d"]>> }

D(n) == [date |-> "d", demand |-> JNum(n)]

\* what the upstream API answers to the GET
Responses ==
    { [error |-> TRUE,  status |-> 0],
      [error |-> FALSE, status |-> 200],
      [error |-> FALSE, status |-> 404],
      [error |-> FALSE, status |-> 500] }

\* the JSON bodies the upstream API may send
HistoricalDataSets ==
    { <<>>,
      <<D(10), D(10), D(10)>>,
      <<D(8), D(12), D(10), D(10)>>,
      <<D(-3), D(5)>>,
      <<D(10), [date |-> "d"]>>,
      <<D(10), [date |-> "d", demand |-> JNull]>> }

\* standard-normal outputs of the generator, in tenths
ZValues == {-20, 0, 25}

(* ------------------------------- state -------------------------------- *)

VARIABLES
    call,     \* call[i]: the frame of invocation i (arguments, locals, outcome)
    rng,      \* the process-wide generator behind np.random
    drawn,    \* drawn[i]: the draws np.random.normal returned to invocation i
    running,  \* the invocation the event loop is running, 0 when none
    now       \* the last reading of the wall clock, in days

vars == <<call, rng, drawn, running, now>>

IdleFrame ==
    [pc                    |-> "idle",
     tool                  |-> "none",
     item_id               |-> "",
     desired_service_level |-> 0,
     response              |-> [error |-> FALSE, status |-> 0],
     historical_data       |-> <<>>,
     lead_times            |-> <<>>,
     demand_data           |-> <<>>,
     avg_lead_time         |-> NaN,
     std_lead_time         |-> NaN,
     start_date            |-> 0,
     daily_demands         |-> <<>>,
     avg_daily_demand      |-> NaN,
     current_inventory     |-> NaN,
     day                   |-> 0,
     inventory_levels      |-> <<>>,
     outcome               |-> Pending]

Init ==
    /\ call = [i \in Calls |-> IdleFrame]
    /\ rng \in [stream : [1 .. StreamPeriod -> ZValues], pos : {0}]
    /\ drawn = [i \in Calls |-> <<>>]
    /\ running = 0
    /\ now = 0

\* the event loop may run invocation i
CanRun(i) == running = 0 \/ running = i

Finish(c, outcome) == [c EXCEPT !.pc = "done", !.outcome = outcome]

(* ------------------------------ actions ------------------------------- *)

\* datetime.now() may return t: the clock never runs backwards
ClockReads(t) == t \in now .. MaxClock

\* invocation i is the next to arrive
NextToArrive(i) ==
    /\ call[i].pc = "idle"
    /\ \A j \in Calls : j < i => call[j].pc # "idle"

\* simulate_lead_time is called and runs to the lead-time statistics
SimStart(i) ==
    /\ NextToArrive(i)
    /\ running = 0
    /\ \E item_id \in SimItemIds, lead_times \in LeadTimeSets,
          demand_data \in DemandDataSets :
          call' = [call EXCEPT ![i] =
                      [@ EXCEPT !.pc            = "sim_setup",
                                !.tool          = "sim",
                                !.item_id       = item_id,
                                !.lead_times    = lead_times,
                                !.demand_data   = demand_data,
                                !.avg_lead_time = np_mean(lead_times),
                                !.std_lead_time = np_std(lead_times)]]
    /\ running' = i
    /\ UNCHANGED <<rng, drawn, now>>

\* start_date, daily_demands, avg_daily_demand, the starting inventory
SimSetup(i) ==
    /\ call[i].pc = "sim_setup"
    /\ CanRun(i)
    /\ \E t \in 0 .. MaxClock :
          /\ ClockReads(t)
          /\ now' = t
          /\ LET c      == call[i]
                 looked == [k \in DOMAIN c.demand_data |->
                               LookupQuantity(c.demand_data[k])]
             IN  IF \E k \in DOMAIN looked : looked[k].kind = "raise"
                 THEN /\ call' = [call EXCEPT ![i] =
                             Finish([c EXCEPT !.start_date = t],
                                    Raise(Exc("KeyError", <<"'quantity'">>)))]
                      /\ running' = 0
                 ELSE /\ call' = [call EXCEPT ![i] =
                             [c EXCEPT
                                !.pc                = "sim_loop",
                                !.start_date        = t,
                                !.daily_demands     =
                                    [k \in DOMAIN looked |-> looked[k].value],
                                !.avg_daily_demand  =
                                    np_mean([k \in DOMAIN looked |->
                                                looked[k].value]),
                                !.current_inventory =
                                    F(InitialInventory * Milli),
                                !.day               = 0,
                                !.inventory_levels  = <<>>]]
                      /\ running' = i
    /\ UNCHANGED <<rng, drawn>>

\* one iteration of the day loop
SimDay(i) ==
    /\ call[i].pc = "sim_loop"
    /\ CanRun(i)
    /\ LoopContinues(call[i].day)
    /\ LET c                 == call[i]
           daily_demand      == normal(rng, c.avg_daily_demand,
                                       np_std(c.daily_demands))
           current_inventory == DayUpdate(c, daily_demand)
       IN  /\ call' = [call EXCEPT ![i] =
                  [c EXCEPT
                     !.current_inventory = current_inventory,
                     !.inventory_levels  =
                         Append(@, Entry(c.start_date, c.day,
                                         current_inventory)),
                     !.day               = @ + 1]]
           /\ drawn' = [drawn EXCEPT ![i] =
                  Append(@, [pos |-> rng.pos, x |-> daily_demand])]
    /\ rng' = Advance(rng)
    /\ running' = AfterIteration(i)
    /\ UNCHANGED now

\* the loop is over: return the result
SimReturn(i) ==
    /\ call[i].pc = "sim_loop"
    /\ CanRun(i)
    /\ ~LoopContinues(call[i].day)
    /\ call' = [call EXCEPT ![i] = Finish(@, Return(SimResult(@)))]
    /\ running' = 0
    /\ UNCHANGED <<rng, drawn, now>>

\* optimize_safety_stock is called and suspends in session.get
OptStart(i) ==
    /\ NextToArrive(i)
    /\ running = 0
    /\ \E item_id \in ItemIds, desired_service_level \in ServiceLevels :
          call' = [call EXCEPT ![i] =
                      [@ EXCEPT !.pc      = "await_get",
                                !.tool    = "opt",
                                !.item_id = item_id,
                                !.desired_service_level =
                                    desired_service_level]]
    /\ UNCHANGED <<rng, drawn, running, now>>

\* the GET completes: fails, or answers with a status; on 200 the coroutine
\* suspends again in response.json()
OptGet(i) ==
    /\ call[i].pc = "await_get"
    /\ running = 0
    /\ \E response \in Responses :
          LET outcome == OuterHandlers(AfterGet(response))
              c       == [call[i] EXCEPT !.response = response]
          IN  call' = [call EXCEPT ![i] =
                          IF outcome.kind = "none"
                          THEN [c EXCEPT !.pc = "await_json"]
                          ELSE Finish(c, outcome)]
    /\ UNCHANGED <<rng, drawn, running, now>>

\* the body arrives and parses: the rest of the function runs
OptJson(i) ==
    /\ call[i].pc = "await_json"
    /\ running = 0
    /\ \E historical_data \in HistoricalDataSets :
          LET c == [call[i] EXCEPT !.historical_data = historical_data]
          IN  call' = [call EXCEPT ![i] =
                          Finish(c, OuterHandlers(
                              AfterJson(c.item_id, c.desired_service_level,
                                        historical_data)))]
    /\ UNCHANGED <<rng, drawn, running, now>>

\* the body does not arrive or is no JSON: response.json() raises a ClientError
OptJsonFails(i) ==
    /\ call[i].pc = "await_json"
    /\ running = 0
    /\ call' = [call EXCEPT ![i] =
                   Finish(@, OuterHandlers(
                       Raise(Exc("ClientError", <<"ContentTypeError">>))))]
    /\ UNCHANGED <<rng, drawn, running, now>>

\* simulate_lead_time invocations
NextSim ==
    \/ \E i \in Calls : SimStart(i)
    \/ \E i \in Calls : SimSetup(i)
    \/ \E i \in Calls : SimDay(i)
    \/ \E i \in Calls : SimReturn(i)

\* optimize_safety_stock invocations
NextOpt ==
    \/ \E i \in Calls : OptStart(i)
    \/ \E i \in Calls : OptGet(i)
    \/ \E i \in Calls : OptJson(i)
    \/ \E i \in Calls : OptJsonFails(i)

\* optimize_safety_stock touches neither the generator nor the clock and no
\* frame but its own, so each tool is checked with invocations of its own kind
SpecSim == Init /\ [][NextSim]_vars

SpecOpt == Init /\ [][NextOpt]_vars

(* ------------------------------ properties ---------------------------- *)

IsSim(i) == call[i].tool = "sim"

IsOpt(i) == call[i].tool = "opt"

Done(i) == call[i].pc = "done"

Returned(i) == Done(i) /\ call[i].outcome.kind = "return"

Raised(i) == Done(i) /\ call[i].outcome.kind = "raise"

\* the arguments of simulate_lead_time are the valid ones: both sequences
\* non-empty, every demand record with a quantity
ValidSimInput(i) ==
    /\ call[i].lead_times # <<>>
    /\ call[i].demand_data # <<>>
    /\ \A k \in DOMAIN call[i].demand_data :
           "quantity" \in DOMAIN call[i].demand_data[k]

\* the values drawn by invocation i, in order
DrawnValues(i) == [d \in DOMAIN drawn[i] |-> drawn[i][d].x]

\* the inventory levels recorded by invocation i, in order
Levels(i) ==
    [k \in DOMAIN call[i].inventory_levels |->
        call[i].inventory_levels[k].inventory_level]

\* every demand drawn so far by invocation i is within 0 .. 100
DrawsWithin0And100(i) ==
    \A d \in DOMAIN drawn[i] :
        ~drawn[i][d].x.nan /\ 0 <= drawn[i][d].x.v /\ drawn[i][d].x.v <= 100000

\* C1: a simulate_lead_time call with valid input runs the day loop exactly
\* 30 times, never ends early, and returns exactly 30 entries; entry d
\* (d = 0..29) carries start_date + d days, so the dates strictly increase
\* from the date read at the call.
C1_ThirtyOrderedDays ==
    \A i \in Calls :
        IsSim(i) /\ ValidSimInput(i) =>
            LET c == call[i]
            IN  /\ Len(c.inventory_levels) = c.day
                /\ Len(drawn[i]) = c.day
                /\ c.day <= 30
                /\ \A k \in DOMAIN c.inventory_levels :
                       c.inventory_levels[k].date = c.start_date + (k - 1)
                /\ Done(i) =>
                       /\ c.outcome.kind = "return"
                       /\ c.day = 30
                       /\ Len(c.outcome.value.simulation_results) = 30
                       /\ c.outcome.value.simulation_results[1].date
                              = c.start_date
                       /\ \A k \in 1 .. 29 :
                              c.outcome.value.simulation_results[k].date
                                < c.outcome.value.simulation_results[k + 1].date

\* a valid call that has returned, made on a day after the server started
C1_Witness ==
    \E i \in Calls :
        /\ IsSim(i) /\ ValidSimInput(i) /\ Returned(i)
        /\ call[i].start_date = 1
        /\ call[i].outcome.value.simulation_results[30].date = 30

\* C2: each simulated day, with prev the inventory carried over and x the
\* demand drawn, the day ends with prev - x + 100 if prev - x < 20 and with
\* prev - x otherwise (one replenishment of exactly 100, the same day, only
\* strictly below 20), and the level recorded for the day is that value
\* rounded to two decimals.
C2_SameDayReplenishment ==
    [][\A i \in Calls :
          ( /\ call[i].pc = "sim_loop"
            /\ Len(drawn'[i]) = Len(drawn[i]) + 1
            /\ ~call[i].current_inventory.nan
            /\ ~drawn'[i][Len(drawn'[i])].x.nan )
          => LET prev  == call[i].current_inventory.v
                 x     == drawn'[i][Len(drawn'[i])].x.v
                 level == IF prev - x < 20000 THEN prev - x + 100000
                          ELSE prev - x
                 entry == call'[i].inventory_levels[
                              Len(call'[i].inventory_levels)]
             IN  /\ call'[i].current_inventory = F(level)
                 /\ Len(call'[i].inventory_levels)
                        = Len(call[i].inventory_levels) + 1
                 /\ entry.inventory_level = F(Round2(level))
                 /\ entry.date = call[i].start_date + call[i].day
      ]_vars

\* a day on which a positive demand was drawn and the recorded level still
\* rose by more than 50 over the day before: the replenishment shows that day
C2_Witness ==
    \E i \in Calls :
        /\ IsSim(i) /\ ValidSimInput(i) /\ call[i].day >= 2
        /\ LET n == call[i].day
           IN  /\ ~drawn[i][n].x.nan /\ drawn[i][n].x.v > 0
               /\ Levels(i)[n].v > Levels(i)[n - 1].v + 50000
               /\ Levels(i)[n].v < 100000

\* C3: simulate_lead_time with empty lead_times or empty demand_data ends
\* with an error and returns no result.
C3_EmptyInputRaises ==
    \A i \in Calls :
        ( /\ IsSim(i) /\ Done(i)
          /\ (call[i].lead_times = <<>> \/ call[i].demand_data = <<>>) )
        => call[i].outcome.kind = "raise"

\* the upstream answered 200 with a non-empty body whose records all carry
\* a demand
ValidUpstream(i) ==
    /\ ~call[i].response.error
    /\ call[i].response.status = 200
    /\ call[i].historical_data # <<>>
    /\ \A k \in DOMAIN call[i].historical_data :
           "demand" \in DOMAIN call[i].historical_data[k]

\* C4: optimize_safety_stock returns a result only when the upstream request
\* succeeded with status 200, the body is non-empty and every record carries
\* a demand; in every other case the call ends by raising, with no result.
C4_ResultOnlyFromValidData ==
    \A i \in Calls :
        IsOpt(i) /\ Done(i) =>
            /\ call[i].outcome.kind \in {"return", "raise"}
            /\ call[i].outcome.kind = "return" => ValidUpstream(i)
            /\ ~ValidUpstream(i) =>
                   /\ call[i].outcome.kind = "raise"
                   /\ DOMAIN call[i].outcome = {"kind", "exc"}
            /\ call[i].outcome.kind = "return" =>
                   /\ ~call[i].outcome.value.safety_stock.nan
                   /\ ~call[i].outcome.value.average_demand.nan
                   /\ ~call[i].outcome.value.std_demand.nan

\* a 200 answer with a record that lacks demand has ended in an error
C4_Witness ==
    \E i \in Calls :
        /\ IsOpt(i) /\ Raised(i)
        /\ ~call[i].response.error /\ call[i].response.status = 200
        /\ call[i].historical_data # <<>>
        /\ \E k \in DOMAIN call[i].historical_data :
               "demand" \notin DOMAIN call[i].historical_data[k]

\* the kind of an error: its exception class
ErrorKind(exc) == exc.type

\* connection error, non-200 status or empty upstream body
RetrievalFailure(i) ==
    \/ call[i].response.error
    \/ call[i].response.status # 200
    \/ call[i].pc = "done" /\ call[i].historical_data = <<>>

\* a record of a non-empty 200 body lacks demand
CoreDataFailure(i) ==
    /\ ~call[i].response.error /\ call[i].response.status = 200
    /\ call[i].historical_data # <<>>
    /\ \E k \in DOMAIN call[i].historical_data :
           "demand" \notin DOMAIN call[i].historical_data[k]

\* C5: the error optimize_safety_stock finally raises tells the kinds of
\* failure apart: a data-retrieval failure reaches the caller as another
\* kind of error than a core data failure.
C5_FailuresDistinctByKind ==
    \A i, j \in Calls :
        ( /\ IsOpt(i) /\ Raised(i) /\ RetrievalFailure(i)
          /\ IsOpt(j) /\ Raised(j) /\ CoreDataFailure(j) )
        => ErrorKind(call[i].outcome.exc) # ErrorKind(call[j].outcome.exc)

C7_SafetyStockNonNegative ==
    \A i \in Calls :
        IsOpt(i) /\ Returned(i) =>
            /\ ~call[i].outcome.value.safety_stock.nan
            /\ call[i].outcome.value.safety_stock.v >= 0

\* results for demands without spread (safety stock 0) and with a negative
\* observation (safety stock above 0)
C7_Witness ==
    /\ IsOpt(1) /\ Returned(1)
    /\ call[1].historical_data = <<D(10), D(10), D(10)>>
    /\ call[1].outcome.value.safety_stock = F(0)
    /\ IsOpt(2) /\ Returned(2)
    /\ call[2].historical_data = <<D(-3), D(5)>>
    /\ call[2].outcome.value.safety_stock.v > 0

C10_LevelStaysWithin20And120 ==
    \A i \in Calls :
        ( /\ IsSim(i) /\ call[i].pc \in {"sim_loop", "done"}
          /\ call[i].demand_data # <<>>
          /\ \A k \in DOMAIN call[i].demand_data :
                 "quantity" \in DOMAIN call[i].demand_data[k]
          /\ DrawsWithin0And100(i) )
        => /\ ~call[i].current_inventory.nan
           /\ 20000 <= call[i].current_inventory.v
           /\ call[i].current_inventory.v < 120000
           /\ \A k \in DOMAIN Levels(i) :
                  /\ ~Levels(i)[k].nan
                  /\ 20000 <= Levels(i)[k].v
                  /\ Levels(i)[k].v <= 120000

\* a returned call whose 30 draws were all within 0 .. 100, with a day that
\* ended at exactly 20 and a day that ended above 100 after a replenishment
C10_Witness ==
    \E i \in Calls :
        /\ IsSim(i) /\ Returned(i) /\ ValidSimInput(i)
        /\ Len(drawn[i]) = 30
        /\ DrawsWithin0And100(i)
        /\ \E k \in 1 .. 30 : Levels(i)[k] = F(20000)
        /\ \E k \in 1 .. 30 : Levels(i)[k].v > 100000

====
